---- MODULE Spec2Model ----
(***************************************************************************)
(* HarmonyBackend: the connection router (Client.Route / Client.close),    *)
(* the transaction socket driver (Client.routeTransaction), the            *)
(* transaction engine (transaction.route / distributeRoutineOutputs) and   *)
(* the routine stepped by the engine (MasterRoutine dispatching to         *)
(* EstablishConnectionToPeer), as goroutines communicating over channels.  *)
(*                                                                         *)
(* An unbuffered channel send is a rendez-vous: the sender waits in a pc   *)
(* and the receiver's action completes the exchange.  A Go panic stops the *)
(* whole process: it is recorded in `panicked` and disables every action.  *)
(***************************************************************************)
EXTENDS Integers, Sequences, FiniteSets, TLC

\* ------------------------------------------------------------------ bounds
MaxSock == 2
MaxTx == 1
MaxFrames == 2
MaxWorkers == 2

\* ------------------------------------------------------- program constants
RI_BUFFER_SIZE == 10
FROMCL_BUFFER_SIZE == 1
maxIceCandidates == 20

\* ------------------------------------------------------------ input domains
Clients == {"A", "B"}
Keys == {"KA", "KB", "KC"}
KeyOf == [c \in Clients |-> IF c = "A" THEN "KA" ELSE "KB"]
ClientOfKey(k) == CHOOSE c \in Clients : KeyOf[c] = k
\* frames <<client, 16-byte id, payload>> the clients may send: A opens
\* transactions under id "x"; B uses "j", the id newId() gives its attached socket
Frames == {<<"A", "x", "initB">>, <<"A", "x", "accept">>,
           <<"B", "j", "accept">>, <<"B", "j", "reject">>}
Sock == 1..MaxSock
Tx == 1..MaxTx
Workers == 1..MaxWorkers

\* newId(): the random id of a socket created by peer-attach
newId == "j"

NoSock == 0
NilPk == "nil"
NoClient == "none"

\* ComeOnline transactions
MaxInst == 2
\* ICE candidates the two sides of a sendConnectionRequest send in all
MaxIce == 21
Inst == 1..MaxInst

\* ------------------------------------------------------------------- state
VARIABLES
  hub,       \* Hub.clients: the client each key is mapped to, or NoClient
  cl,        \* per Client: Route position, disconnected, transactions, dangling lists
  sock,      \* per transactionSocket: channels, status and driver position
  tx,        \* per transaction: pkToROChan, transactionSocketCount, riChan, routine
  eng,       \* per transaction and worker: transaction.route position and locals
  panicked,  \* "none", or the reason of the Go panic that stopped the process
  frames,    \* the number of frames the connection routers have read so far
  hubLock,   \* genericHub.lock: "free", or who holds it
  publicKey, \* Client.publicKey per client, NilPk until SetPublicKey
  co,        \* per ComeOnline transaction: its client, step, key and position
  engGet,    \* the key an engine's hub.GetClient call is reading, or NilPk
  rs         \* a routine stepped on its own: its state, its last input and
             \* outputs, and which participants it has terminated

vars == <<hub, cl, sock, tx, eng, panicked, frames, hubLock, publicKey, co, engGet, rs>>

\* the state of the directory and of the ComeOnline transactions, and the
\* routine stepped on its own
dirVars == <<hubLock, publicKey, co, engGet, rs>>

\* --------------------------------------------------------- routine outputs
\* RoutineOutput: Pk (NilPk = reply to sender), Done, TimeoutEnabled, Msgs
RO(pk, done, timeout, msg) == [pk |-> pk, done |-> done, timeout |-> timeout, msg |-> msg]

\* model.MakeRoutineOutput(done, msgs...)
MakeRoutineOutput(done, msg) == RO(NilPk, done, FALSE, msg)

\* ectpError(pk, msgs...): one output, Done, carrying MakeJSONError(msg)
ectpError(pk, msg) == <<RO(pk, TRUE, FALSE, msg)>>

\* distributeRoutineOutputs: an output without Pk goes to the sender of the
\* input, any other to the socket of its Pk
AddresseeOf(o, in) == IF o.pk = NilPk THEN in.pk ELSE o.pk

\* RoutineInput wrapped with the sender's roChan (routineInputWrapper)
RIW(s, type, pk, msg) == [s |-> s, type |-> type, pk |-> pk, msg |-> msg]

\* isClientCancelMsg: the payload validates against clientCancelSchema
isClientCancelMsg(msg) == msg = "cancel"

IsInit(msg) == msg \in {"initA", "initB", "initC"}
InitTarget(msg) == IF msg = "initA" THEN "KA" ELSE IF msg = "initB" THEN "KB" ELSE "KC"

\* ------------------------------------------------- EstablishConnectionToPeer
\* routine state: state, pkA, pkB, pk{A,B}HasSentEmptyICECandidate
ectpInit == [kind |-> "master", set |-> FALSE, sub |-> "none", state |-> "entry",
             pkA |-> NilPk, pkB |-> NilPk, aEmpty |-> FALSE, bEmpty |-> FALSE]

Step(r, outs) == [rt |-> r, outs |-> outs]

\* a variant of pairSet that never finds both keys set
pairSet_never(r) == FALSE

\* Next: `r.pkA != nil && r.pkB != nil`
pairSet(r) == r.pkA # NilPk /\ r.pkB # NilPk

ectpTimeout(r, in) ==
  Step(r, ectpError(NilPk, "Timeout") \o
          (IF pairSet(r)
             THEN IF in.pk = r.pkA THEN ectpError(r.pkB, "Peer timed out")
                  ELSE IF in.pk = r.pkB THEN ectpError(r.pkA, "Peer timed out")
                  ELSE <<>>
             ELSE <<>>))

ectpClientClose(r, in) ==
  Step(r, IF pairSet(r)
            THEN IF in.pk = r.pkA THEN ectpError(r.pkB, "Peer disconnected")
                 ELSE IF in.pk = r.pkB THEN ectpError(r.pkA, "Peer disconnected")
                 ELSE <<>>
            ELSE <<>>)

\* a variant of stillInEntry that takes every state for entry
stillInEntry_always(r) == TRUE

\* cancel: `r.state == ectp_entry`
stillInEntry(r) == r.state = "entry"

ectpCancel(r, in) ==
  IF stillInEntry(r)
    THEN Step(r, <<RO(NilPk, TRUE, FALSE, "")>>)
    ELSE Step(r, <<RO(NilPk, TRUE, FALSE, "")>> \o
                 ectpError(IF in.pk = r.pkA THEN r.pkB ELSE r.pkA,
                           "Peer cancelled the transaction"))

ectpEntry(r, in, h) ==
  IF in.pk = NilPk THEN Step(r, ectpError(NilPk, "You have not provided a public key"))
  ELSE LET r1 == [r EXCEPT !.pkA = in.pk] IN
    IF ~IsInit(in.msg) THEN Step(r1, ectpError(NilPk, "schema"))
    ELSE LET r2 == [r1 EXCEPT !.pkB = InitTarget(in.msg)] IN
      IF h[r2.pkB] # NoClient
        THEN Step([r2 EXCEPT !.state = "bAcceptOrReject"],
                  <<RO(r2.pkB, FALSE, TRUE, "receiveConnectionRequest")>>)
        ELSE Step(r2, <<RO(r2.pkA, TRUE, FALSE, "offline")>>)

\* a variant of fromInitiator that takes every message to be from B
fromInitiator_never(r, in) == FALSE

\* bAcceptOrReject: `*args.Pk == *r.pkA`, "check response is from B"
fromInitiator(r, in) == in.pk = r.pkA

ectpBAcceptOrReject(r, in) ==
  IF fromInitiator(r, in)
    THEN Step(r, ectpError(r.pkA, "Message sent out or order") \o
                 ectpError(r.pkB, "Peer sent a malformed message"))
  ELSE IF in.msg = "reject"
    THEN Step(r, <<RO(r.pkA, TRUE, FALSE, "reject"), RO(r.pkB, TRUE, FALSE, "done")>>)
  ELSE IF in.msg = "accept"
    THEN Step([r EXCEPT !.state = "aSdpAnswer"], <<RO(r.pkA, FALSE, TRUE, "acceptAndOffer")>>)
  ELSE Step(r, ectpError(NilPk, "schema") \o ectpError(r.pkA, "Peer sent a malformed message"))

ectpASdpAnswer(r, in) ==
  IF in.pk = r.pkB
    THEN Step(r, ectpError(r.pkB, "Message sent out or order") \o
                 ectpError(r.pkA, "Peer sent a malformed message"))
  ELSE IF in.msg = "answer"
    THEN Step([r EXCEPT !.state = "iceCandidates"], <<RO(r.pkB, FALSE, TRUE, "answer")>>)
  ELSE Step(r, ectpError(NilPk, "schema") \o ectpError(r.pkB, "Peer sent a malformed message"))

\* a variant of bothFinished that is satisfied with one empty candidate
bothFinished_onFirst(r, fromA, msg) == msg = "iceEnd"

\* iceCandidates: `terminate`, set when the candidate is empty and the other
\* side has sent its empty candidate before
bothFinished(r, fromA, msg) == msg = "iceEnd" /\ (IF fromA THEN r.bEmpty ELSE r.aEmpty)

ectpIceCandidates(r, in) ==
  LET fromA == in.pk = r.pkA
      toPk == IF fromA THEN r.pkB ELSE r.pkA
      already == IF fromA THEN r.aEmpty ELSE r.bEmpty
      r1 == IF in.msg = "iceEnd"
              THEN IF fromA THEN [r EXCEPT !.aEmpty = TRUE] ELSE [r EXCEPT !.bEmpty = TRUE]
              ELSE r
      terminate == bothFinished(r, fromA, in.msg)
  IN IF already
       THEN Step(r, ectpError(NilPk, "Another ICE candidate sent after final ICE candidate") \o
                    ectpError(toPk, "Peer sent a malformed message"))
     ELSE IF in.msg \notin {"ice", "iceEnd"}
       THEN Step(r, ectpError(NilPk, "schema") \o ectpError(toPk, "Peer sent a malformed message"))
     ELSE IF terminate
       THEN Step(r1, <<RO(toPk, TRUE, FALSE, "ICECandidate+done"), RO(NilPk, TRUE, FALSE, "done")>>)
     ELSE Step(r1, <<RO(toPk, FALSE, TRUE, "ICECandidate")>>)

ectpNext(r, in, h) ==
  IF in.type = "timeout" THEN ectpTimeout(r, in)
  ELSE IF in.type = "close" THEN ectpClientClose(r, in)
  ELSE IF isClientCancelMsg(in.msg) THEN ectpCancel(r, in)
  ELSE IF r.state = "entry" THEN ectpEntry(r, in, h)
  ELSE IF r.state = "bAcceptOrReject" THEN ectpBAcceptOrReject(r, in)
  ELSE IF r.state = "aSdpAnswer" THEN ectpASdpAnswer(r, in)
  ELSE ectpIceCandidates(r, in)

\* ------------------------------------------------------------- ComeOnline
\* makeCOOutput(done, msgs...): one output to the sender, TimeoutEnabled
makeCOOutput(done, msg) == <<RO(NilPk, done, TRUE, msg)>>

\* ComeOnline.hello: c.client.GetPublicKey() is the key of the client whose
\* frame created the transaction, the sender of the first input
hello(r, in) ==
  IF in.pk # NilPk
    THEN Step(r, makeCOOutput(TRUE, "Public key already set"))
    ELSE Step([r EXCEPT !.state = "comeOnlineStep_recvPublicKey"],
              makeCOOutput(FALSE, "version"))

\* ComeOnline.Next, for the inputs that do not touch the hub: ClientClose,
\* Timeout, a cancel message and the step hello (the steps recvPublicKey
\* and recvSignature are the actions CoRecvPublicKey to CoSetPublicKey)
comeOnlineNext(r, in) ==
  IF in.type = "close" THEN Step(r, <<>>)
  ELSE IF in.type = "timeout" THEN Step(r, makeCOOutput(TRUE, "timeout"))
  ELSE IF isClientCancelMsg(in.msg) THEN Step(r, makeCOOutput(TRUE, ""))
  ELSE CASE r.state = "comeOnlineStep_hello" -> hello(r, in)

\* ---------------------------------------------------------- FriendRequest
IsFriendInit(msg) == msg \in {"friendA", "friendB"}
FriendTarget(msg) == IF msg = "friendA" THEN "KA" ELSE "KB"

\* frError(pk, msgs...): one output, Done, carrying MakeJSONError(msg)
frError(pk, msg) == <<RO(pk, TRUE, FALSE, msg)>>

\* FriendRequest.entry
frEntry(r, in, h) ==
  IF in.pk = NilPk THEN Step(r, frError(NilPk, "You have not provided a public key"))
  ELSE LET r1 == [r EXCEPT !.pkA = in.pk] IN
    IF ~IsFriendInit(in.msg) THEN Step(r1, frError(NilPk, "schema"))
    ELSE LET r2 == [r1 EXCEPT !.pkB = FriendTarget(in.msg)] IN
      IF r2.pkA = r2.pkB
        THEN Step(r2, ectpError(NilPk, "Sending a friend request to yourself is not allowed"))
      ELSE IF h[r2.pkB] # NoClient
        THEN Step([r2 EXCEPT !.state = "fr_reply"],
                  <<RO(r2.pkB, FALSE, TRUE, "receiveFriendRequest")>>)
        ELSE Step(r2, <<RO(NilPk, TRUE, FALSE, "offline")>>)

\* FriendRequest.reply
frReply(r, in) ==
  IF in.pk = NilPk \/ in.pk = r.pkA
    THEN Step(r, frError(NilPk, "Message send out of order") \o
                 frError(r.pkB, "Peer sent a malformed message"))
  ELSE IF in.msg # "forward"
    THEN Step(r, frError(NilPk, "schema") \o
                 frError(r.pkA, "Peer sent a malformed message"))
  ELSE Step(r, <<RO(r.pkA, TRUE, FALSE, "forwarded"), RO(r.pkB, TRUE, FALSE, "done")>>)

\* FriendRequest.cancel
frCancel(r, in) ==
  IF r.state = "fr_entry"
    THEN Step(r, <<RO(NilPk, TRUE, FALSE, "")>>)
    ELSE Step(r, <<RO(NilPk, TRUE, FALSE, "")>> \o
                 frError(IF in.pk = r.pkA THEN r.pkB ELSE r.pkA,
                         "Peer cancelled the transaction"))

\* FriendRequest.Next (a Timeout or ClientClose input comes from pkA or pkB:
\* the routine has reached fr_reply when a second input arrives)
friendRequestNext(r, in, h) ==
  IF in.type = "timeout"
    THEN Step(r, frError(NilPk, "Timeout") \o
                 (IF in.pk = r.pkA THEN frError(r.pkB, "Peer timed out")
                  ELSE IF in.pk = r.pkB THEN frError(r.pkA, "Peer timed out")
                  ELSE <<>>))
  ELSE IF in.type = "close"
    THEN CASE in.pk = r.pkA -> Step(r, frError(r.pkB, "Peer disconnected"))
           [] in.pk = r.pkB -> Step(r, frError(r.pkA, "Peer disconnected"))
  ELSE IF isClientCancelMsg(in.msg) THEN frCancel(r, in)
  ELSE IF r.state = "fr_entry" THEN frEntry(r, in, h)
  ELSE frReply(r, in)

\* ------------------------------------------------------------ MasterRoutine
\* the value of the "initiate" property of a client message, "" for a
\* message that has none
Initiate(msg) ==
  IF IsInit(msg) THEN "sendConnectionRequest"
  ELSE IF IsFriendInit(msg) THEN "sendFriendRequest"
  ELSE IF msg \in {"comeOnline", "sendFriendRejection"} THEN msg
  ELSE ""

\* list of acceptable values of the "initiate" property
routineNames == {"comeOnline", "sendConnectionRequest", "sendFriendRequest"}

\* a variant of setSubRoutineFromInitialMsg that accepts every message
setSubRoutineFromInitialMsg_anyMessage(msg) == "NewEstablishConnectionToPeer"

\* MasterRoutine.setSubRoutineFromInitialMsg: the constructor called for
\* the first message, "error" when initiateSchema rejects the message
setSubRoutineFromInitialMsg(msg) ==
  IF Initiate(msg) \notin routineNames THEN "error"
  ELSE IF Initiate(msg) = "comeOnline" THEN "NewComeOnline"
  ELSE IF Initiate(msg) = "sendConnectionRequest" THEN "NewEstablishConnectionToPeer"
  ELSE "NewFriendRequest"

\* r.subRoutine = r.rc.New...(r.client, r.hub): the new sub-routine starts
\* in its first state
newSubRoutine(r, sub) ==
  [r EXCEPT !.set = TRUE, !.sub = sub,
            !.state = IF sub = "NewComeOnline" THEN "comeOnlineStep_hello"
                      ELSE IF sub = "NewFriendRequest" THEN "fr_entry"
                      ELSE "entry"]

\* r.subRoutine.Next(args)
subRoutineNext(r, in, h) ==
  IF r.sub = "NewComeOnline" THEN comeOnlineNext(r, in)
  ELSE IF r.sub = "NewFriendRequest" THEN friendRequestNext(r, in, h)
  ELSE ectpNext(r, in, h)

\* MasterRoutine.Next: the first input chooses the sub-routine from its
\* "initiate" field (args.Msg is "" for Timeout and ClientClose inputs)
masterNext(r, in, h) ==
  IF ~r.set
    THEN IF setSubRoutineFromInitialMsg(in.msg) = "error"
           THEN Step(r, <<MakeRoutineOutput(TRUE, "routine does not exist")>>)
           ELSE subRoutineNext(newSubRoutine(r, setSubRoutineFromInitialMsg(in.msg)), in, h)
    ELSE subRoutineNext(r, in, h)


\* --------------------------------------------------- instantTimeoutRoutine
\* the routine of TestClient: it counts the user messages it is given
instantInit == [kind |-> "instant", usr |-> 0]

\* instantTimeoutRoutine.Next: a user message is answered with the routine
\* number and a timeout of 0 s, a Timeout with Done, anything else with no
\* output
instantNext(r, in) ==
  IF in.type = "usr"
    THEN Step([r EXCEPT !.usr = @ + 1], <<RO(NilPk, FALSE, TRUE, "0")>>)
  ELSE IF in.type = "timeout" THEN Step(r, <<MakeRoutineOutput(TRUE, "terminate")>>)
  ELSE Step(r, <<>>)

\* t.routine.Next(riw.args), for the routine makeRoutine has created
routineNext(r, in, h) ==
  IF r.kind = "instant" THEN instantNext(r, in) ELSE masterNext(r, in, h)

\* ------------------------------------------------- a routine on its own
\* RoutineInput: MsgType, Pk (NilPk for a client without a key), Msg
RI(type, pk, msg) == [type |-> type, pk |-> pk, msg |-> msg]

\* a new transaction's routine (NewMasterRoutine), no input given yet
rsInit == [rt |-> ectpInit, started |-> FALSE, inp |-> RI("none", NilPk, ""),
           outs |-> <<>>, active |-> {}, gone |-> {}, ended |-> {}, armed |-> {},
           doneTo |-> {},
           closedFrom |-> {}, iceA |-> 0, iceB |-> 0,
           \* flips at every Next call
           tick |-> FALSE]

\* ------------------------------------------------------------ initial state
NoInp == RIW(NoSock, "none", NilPk, "")

\* a transactionSocket slot not yet created by newTransactionSocket
sockInit == [owner |-> "none", tx |-> 0, id |-> "", pc |-> "none",
             done |-> FALSE, timer |-> "none",
             fromCl |-> <<>>, fromClClosed |-> FALSE, ccClosed |-> FALSE, roClosed |-> FALSE,
             wire |-> "none",
             \* history: what has happened to the socket so far
             sentDone |-> FALSE, reported |-> FALSE, activeAtClose |-> FALSE,
             late |-> FALSE, ccRecv |-> 0, ccDisc |-> FALSE,
             armedAtDone |-> FALSE, heard |-> FALSE,
             \* created by Client.Route (TRUE) or by an engine's peer-attach
             byRoute |-> FALSE]

\* Client.newTransactionSocket(transaction, id), its driver not yet started
newTransactionSocket(c, t, id) == [sockInit EXCEPT !.owner = c, !.tx = t, !.id = id]

\* a transaction slot not yet created by newTransaction
txInit == [alive |-> FALSE, count |-> 0, pkmap |-> [k \in Keys |-> NoSock],
           ri |-> <<>>, riClosed |-> FALSE, rt |-> ectpInit,
           \* history: how often transactionSocketCount has dropped to zero
           zeros |-> 0,
           \* history: the keys the routine has addressed a Done output to,
           \* and the keys it has been given a ClientClose input from
           doneTo |-> {}, closedFrom |-> {}]

\* Client.newTransaction(routine), with routine := makeRoutine()
newTransaction(makeRoutine) ==
  [txInit EXCEPT !.alive = TRUE,
                 !.rt = IF makeRoutine = "instant" THEN instantInit ELSE ectpInit]

\* locals of one transaction.route goroutine
engInit == [pc |-> "none", inp |-> NoInp, outs |-> <<>>, tgt |-> NoSock, ctgt |-> NoSock,
            closed |-> {}]

\* MakeClient(conn), before Route reads its first frame
MakeClient == [pc |-> "read", disconnected |-> FALSE, socks |-> {},
               dFrom |-> {}, dClose |-> {}, signalled |-> {}, swept |-> FALSE,
               \* ids in c.transactions of sockets the client has opened on
               \* transactions other than those of Tx
               others |-> {},
               \* the makeRoutine argument of Route: NewMasterRoutine
               \* ("master") or TestClient's instantTimeoutRoutine ("instant")
               makeRoutine |-> "master"]

\* a ComeOnline transaction slot not yet started
coInit == [client |-> NoClient, pc |-> "none", key |-> NilPk, err |-> ""]

\* the hub after every client has come online under its key
Registered == [k \in Keys |-> IF \E c \in Clients : KeyOf[c] = k THEN ClientOfKey(k)
                                                                ELSE NoClient]

\* the directory at rest, every client holding the key it came online with
DirIdle ==
  /\ hubLock = "free"
  /\ publicKey = KeyOf
  /\ co = [i \in Inst |-> coInit]
  /\ engGet = NilPk
  /\ rs = rsInit

\* the state after construction: two connected clients, both registered in
\* the hub under their keys, no frame read yet
InitFresh ==
  /\ hub = Registered
  /\ DirIdle
  /\ cl = [c \in Clients |-> MakeClient]
  /\ sock = [s \in Sock |-> sockInit]
  /\ tx = [t \in Tx |-> txInit]
  /\ eng = [t \in Tx |-> [w \in Workers |-> engInit]]
  /\ panicked = "none"
  /\ frames = 0

\* the payload of the frames client A floods its transaction with
Filler == "accept"

\* a state under input pressure: client A has opened transaction 1 under id
\* "x" with a first frame `first` and has sent further frames, all forwarded
\* by the socket's driver, so that riChan holds RI_BUFFER_SIZE inputs before
\* the engine worker has run
InitBacklog(first) ==
  /\ hub = Registered
  /\ DirIdle
  /\ cl = [c \in Clients |-> IF c = "A" THEN [MakeClient EXCEPT !.socks = {1}] ELSE MakeClient]
  /\ sock = [s \in Sock |-> IF s = 1
                              THEN [newTransactionSocket("A", 1, "x") EXCEPT !.pc = "select"]
                              ELSE sockInit]
  /\ tx = [t \in Tx |-> IF t = 1
                          THEN [newTransaction("master") EXCEPT
                                  !.count = 1,
                                  !.pkmap["KA"] = 1,
                                  !.ri = [i \in 1..RI_BUFFER_SIZE |->
                                            RIW(1, "usr", "KA", IF i = 1 THEN first ELSE Filler)]]
                          ELSE txInit]
  /\ eng = [t \in Tx |-> [w \in Workers |->
                            IF t = 1 /\ w = 1 THEN [engInit EXCEPT !.pc = "idle"] ELSE engInit]]
  /\ panicked = "none"
  /\ frames = 0

\* ids of transactions a client may have open besides those of Tx
OtherIds == [c \in Clients |-> IF c = "A" THEN "y" ELSE newId]

\* the state after construction, where moreover each client may hold a socket
\* of a transaction it has opened earlier under the id OtherIds[c]
InitBusy ==
  /\ hub = Registered
  /\ DirIdle
  /\ \E busy \in SUBSET Clients :
       cl = [c \in Clients |->
               [MakeClient EXCEPT !.others = IF c \in busy THEN {OtherIds[c]} ELSE {}]]
  /\ sock = [s \in Sock |-> sockInit]
  /\ tx = [t \in Tx |-> txInit]
  /\ eng = [t \in Tx |-> [w \in Workers |-> engInit]]
  /\ panicked = "none"
  /\ frames = 0

\* the state after construction where Route may have been given TestClient's
\* makeRoutine, and then with TestClient's empty hub
InitMock ==
  /\ \E mk \in {"master", "instant"} :
       /\ cl = [c \in Clients |-> [MakeClient EXCEPT !.makeRoutine = mk]]
       /\ hub = IF mk = "instant" THEN [k \in Keys |-> NoClient] ELSE Registered
  /\ DirIdle
  /\ sock = [s \in Sock |-> sockInit]
  /\ tx = [t \in Tx |-> txInit]
  /\ eng = [t \in Tx |-> [w \in Workers |-> engInit]]
  /\ panicked = "none"
  /\ frames = 0

Init == InitFresh \/ \E first \in {"initB", "accept"} : InitBacklog(first)

Running == panicked = "none"

FreeSocks == {s \in Sock : sock[s].owner = "none"}
FreeTxs == {t \in Tx : ~tx[t].alive}
Min(S) == CHOOSE x \in S : \A y \in S : x <= y

\* ------------------------------------------------------ shared operations
\* Client.addTransactionSocket(ts) for a socket n of client c on transaction t:
\* registers roChan under the client's key, counts the socket, stores it in
\* c.transactions  (the disconnected case is decided by the caller's guard)
addTransactionSocket(n, c, t, clv, txv) ==
  [cl |-> [clv EXCEPT ![c].socks = @ \cup {n}],
   tx |-> [txv EXCEPT ![t].pkmap[KeyOf[c]] = n, ![t].count = @ + 1]]

\* Client.addTransactionSocket: the ids present in c.transactions
heldIds(c, clv, sockv) == {sockv[s].id : s \in clv[c].socks} \cup clv[c].others

\* a variant of refusesSocket that never refuses
refusesSocket_never(clv, c) == FALSE

\* Client.addTransactionSocket: `if c.disconnected { return errors.New(...) }`
refusesSocket(clv, c) == clv[c].disconnected

\* Client.deleteTransactionSocket(id) called by the driver of socket s
deleteTransactionSocket(s, clv, txv) ==
  LET c == sock[s].owner
      t == sock[s].tx
      n == txv[t].count - 1
  IN IF s \notin clv[c].socks
       THEN [cl |-> clv, tx |-> txv, panic |-> "none"]
       ELSE [cl |-> [clv EXCEPT ![c].socks = @ \ {s},
                                ![c].dFrom = @ \cup {s},
                                ![c].dClose = @ \cup {s}],
             tx |-> [txv EXCEPT ![t].pkmap[KeyOf[c]] = NoSock,
                                ![t].count = n,
                                ![t].riClosed = @ \/ n = 0,
                                ![t].zeros = IF n = 0 THEN @ + 1 ELSE @],
             panic |-> IF n = 0 /\ txv[t].riClosed
                         THEN "close of closed channel (riChan)" ELSE "none"]

\* a variant of closeDanglingChannels that leaves the lists as they are
closeDanglingChannels_keepsLists(c, clv, sockv) ==
  [cl |-> clv,
   sock |-> [s \in Sock |->
               [sockv[s] EXCEPT !.fromClClosed = @ \/ s \in clv[c].dFrom,
                                !.ccClosed = @ \/ s \in clv[c].dClose]],
   panic |-> IF \E s \in clv[c].dFrom : sockv[s].fromClClosed
               THEN "close of closed channel (fromCl)"
             ELSE IF \E s \in clv[c].dClose : sockv[s].ccClosed
               THEN "close of closed channel (clientCloseChan)"
             ELSE "none"]

\* Client.closeDanglingChannels(): closes every listed channel (closing a
\* closed channel panics), empties the lists
closeDanglingChannels(c, clv, sockv) ==
  [cl |-> [clv EXCEPT ![c].dFrom = {}, ![c].dClose = {}],
   sock |-> [s \in Sock |->
               [sockv[s] EXCEPT !.fromClClosed = @ \/ s \in clv[c].dFrom,
                                !.ccClosed = @ \/ s \in clv[c].dClose]],
   panic |-> IF \E s \in clv[c].dFrom : sockv[s].fromClClosed
               THEN "close of closed channel (fromCl)"
             ELSE IF \E s \in clv[c].dClose : sockv[s].ccClosed
               THEN "close of closed channel (clientCloseChan)"
             ELSE "none"]

\* ---------------------------------------------------- connection router
\* a variant of goRouteRoutine that starts an engine worker for every frame
goRouteRoutine_everyFrame(engv, t, isNew) ==
  IF isNew THEN [engv EXCEPT ![t][1].pc = "idle"]
  ELSE [engv EXCEPT ![t][2].pc = IF @ = "none" THEN "idle" ELSE @]

\* Client.Route: `go routeRoutine(hub, tNew)`, only for a transaction that
\* this frame has created
goRouteRoutine(engv, t, isNew) ==
  IF isNew THEN [engv EXCEPT ![t][1].pc = "idle"] ELSE engv

\* Client.Route: one iteration for a frame (id, payload), followed by the
\* closeDanglingChannels() that precedes the next blocking read
RouteFrame(c, id, p) ==
  /\ Running
  /\ UNCHANGED dirVars
  /\ cl[c].pc = "read"
  /\ frames < MaxFrames
  /\ frames' = frames + 1
  /\ LET ex == {s \in cl[c].socks : sock[s].id = id}
         cl0 == cl
     IN IF id \in cl[c].others
          THEN LET r == closeDanglingChannels(c, cl0, sock)
               IN /\ cl' = r.cl
                  /\ sock' = r.sock
                  /\ panicked' = r.panic
                  /\ UNCHANGED <<hub, tx, eng>>
        ELSE IF ex # {}
          THEN LET s == CHOOSE s \in ex : TRUE
                   sock1 == IF Len(sock[s].fromCl) < FROMCL_BUFFER_SIZE
                              THEN [sock EXCEPT ![s].fromCl = Append(@, p)]
                              ELSE [sock EXCEPT ![s].wire = "Buffer is occupied, message ignored"]
                   r == closeDanglingChannels(c, cl0, sock1)
               IN /\ IF sock[s].fromClClosed
                       THEN /\ panicked' = "send on closed channel (fromCl)"
                            /\ UNCHANGED <<cl, sock>>
                       ELSE /\ cl' = r.cl
                            /\ sock' = r.sock
                            /\ panicked' = r.panic
                  /\ eng' = goRouteRoutine(eng, sock[s].tx, FALSE)
                  /\ UNCHANGED <<hub, tx>>
          ELSE /\ FreeTxs # {}
               /\ FreeSocks # {}
               /\ LET t == Min(FreeTxs)
                      n == Min(FreeSocks)
                      a == addTransactionSocket(n, c, t, cl0, [tx EXCEPT ![t] = newTransaction(cl[c].makeRoutine)])
                      sock1 == [sock EXCEPT ![n] = [newTransactionSocket(c, t, id)
                                                      EXCEPT !.pc = "select", !.fromCl = <<p>>,
                                                             !.byRoute = TRUE]]
                      r == closeDanglingChannels(c, a.cl, sock1)
                  IN /\ cl' = r.cl
                     /\ sock' = r.sock
                     /\ tx' = a.tx
                     /\ eng' = goRouteRoutine(eng, t, TRUE)
                     /\ panicked' = r.panic
                     /\ UNCHANGED hub

\* Client.Route: a frame shorter than IDLEN is logged and ignored
RouteShortFrame(c) ==
  /\ Running
  /\ UNCHANGED dirVars
  /\ cl[c].pc = "read"
  /\ LET r == closeDanglingChannels(c, cl, sock)
     IN cl' = r.cl /\ sock' = r.sock /\ panicked' = r.panic
  /\ UNCHANGED <<hub, tx, eng, frames>>

\* Client.Route: ReadMessage fails, the loop breaks; Client.close sets disconnected
RouteReadError(c) ==
  /\ Running
  /\ UNCHANGED dirVars
  /\ cl[c].pc = "read"
  /\ cl' = [cl EXCEPT ![c].pc = "closing", ![c].disconnected = TRUE]
  /\ UNCHANGED <<hub, sock, tx, eng, panicked, frames>>

\* Client.close: the range over c.transactions has no socket left to signal;
\* close returns (its deferred sweep is CloseSweep), Route returns and
\* createAndRouteClient's deferred hub.DeleteClient(pk) runs
CloseReturn(c) ==
  /\ Running
  /\ UNCHANGED dirVars
  /\ cl[c].pc = "closing"
  /\ cl[c].socks \ cl[c].signalled = {}
  /\ cl' = [cl EXCEPT ![c].pc = "returned", ![c].signalled = {}]
  /\ hub' = [hub EXCEPT ![KeyOf[c]] = NoClient]
  /\ UNCHANGED <<sock, tx, eng, panicked, frames>>

\* Client.close: the goroutine that sleeps, then calls closeDanglingChannels()
CloseSweep(c) ==
  /\ Running
  /\ UNCHANGED dirVars
  /\ cl[c].pc = "returned"
  /\ ~cl[c].swept
  /\ LET r == closeDanglingChannels(c, [cl EXCEPT ![c].swept = TRUE], sock)
     IN cl' = r.cl /\ sock' = r.sock /\ panicked' = r.panic
  /\ UNCHANGED <<hub, tx, eng, frames>>

\* Client.close: `t.clientCloseChan <- struct{}{}` for one socket still in
\* c.transactions, received by that socket's driver in its select
\* (routeTransaction, case <-ts.clientCloseChan)
CloseSignal(c, s) ==
  /\ Running
  /\ UNCHANGED dirVars
  /\ cl[c].pc = "closing"
  /\ s \in cl[c].socks \ cl[c].signalled
  /\ sock[s].pc = "select"
  /\ IF sock[s].ccClosed
       THEN /\ panicked' = "send on closed channel (clientCloseChan)"
            /\ UNCHANGED <<cl, sock>>
       ELSE /\ cl' = [cl EXCEPT ![c].signalled = @ \cup {s}]
            /\ sock' = IF sock[s].done
                         THEN sock
                         ELSE [sock EXCEPT ![s].done = TRUE, ![s].pc = "enqClose",
                                           ![s].reported = TRUE, ![s].activeAtClose = TRUE]
            /\ UNCHANGED panicked
  /\ UNCHANGED <<hub, tx, eng, frames>>

\* ------------------------------------------------------- socket driver
\* a variant of processRoutineOutput that updates the status in place and
\* forgets `status.done = ro.Done`
processRoutineOutput_inPlace(r, ro) ==
  [r EXCEPT !.wire = IF ro.msg = "" THEN @ ELSE ro.msg,
            !.timer = IF ro.timeout THEN "armed" ELSE @]

\* Client.processRoutineOutput(ts, ro): writes ro.Msgs, returns the new status
processRoutineOutput(r, ro) ==
  [r EXCEPT !.wire = IF ro.msg = "" THEN @ ELSE ro.msg,
            !.timer = IF ro.timeout THEN "armed" ELSE "none",
            !.done = ro.done]

\* routeTransaction, case ro, ok := <-ts.roChan with ok: the rendez-vous with
\* the engine worker blocked in its send, processRoutineOutput, and
\* deleteTransactionSocket when ro.Done
DriverRecvOutput(s) ==
  /\ Running
  /\ UNCHANGED dirVars
  /\ sock[s].pc = "select"
  /\ \E t \in Tx, w \in Workers :
       /\ eng[t][w].pc = "send"
       /\ eng[t][w].tgt = s
       /\ LET ro == Head(eng[t][w].outs)
              d == IF ro.done THEN deleteTransactionSocket(s, cl, tx)
                              ELSE [cl |-> cl, tx |-> tx, panic |-> "none"]
          IN /\ sock' = [sock EXCEPT ![s] = [processRoutineOutput(@, ro)
                                              EXCEPT !.sentDone = @ \/ ro.done,
                                                     !.reported = @ \/ ro.done,
                                                     !.armedAtDone =
                                                        @ \/ (ro.done /\ sock[s].timer = "armed"),
                                                     !.heard = IF ro.timeout THEN FALSE ELSE @]]
             /\ cl' = d.cl
             /\ tx' = d.tx
             /\ panicked' = d.panic
             /\ eng' = [eng EXCEPT ![t][w].pc = "sent"]
  /\ UNCHANGED <<hub, frames>>

\* routeTransaction: the three `!ok` receives.  A closed channel stays ready,
\* so once roChan, clientCloseChan and fromCl are all closed (and fromCl is
\* drained) the select sets roChanClosed, clientCloseChanClosed, fromClClosed
\* and allClosed() makes the driver return
DriverExit(s) ==
  /\ Running
  /\ UNCHANGED dirVars
  /\ sock[s].pc = "select"
  /\ sock[s].roClosed /\ sock[s].ccClosed /\ sock[s].fromClClosed
  /\ sock[s].fromCl = <<>>
  /\ sock' = [sock EXCEPT ![s].pc = "exit"]
  /\ UNCHANGED <<hub, cl, tx, eng, panicked, frames>>

\* the blocking `ts.transaction.riChan <- routineInputWrapper{...}`
SendRI(t, riw) ==
  IF tx[t].riClosed
    THEN /\ panicked' = "send on closed channel (riChan)"
         /\ UNCHANGED tx
    ELSE /\ Len(tx[t].ri) < RI_BUFFER_SIZE
         /\ tx' = [tx EXCEPT ![t].ri = Append(@, riw)]
         /\ UNCHANGED panicked

\* routeTransaction, client close: the send of the ClientClose input
DriverEnqueueClose(s) ==
  /\ Running
  /\ UNCHANGED dirVars
  /\ sock[s].pc = "enqClose"
  /\ SendRI(sock[s].tx, RIW(s, "close", KeyOf[sock[s].owner], ""))
  /\ sock' = [sock EXCEPT ![s].pc = "delClose"]
  /\ UNCHANGED <<hub, cl, eng, frames>>

\* routeTransaction, client close: c.deleteTransactionSocket(ts.id)
DriverDeleteAfterClose(s) ==
  /\ Running
  /\ UNCHANGED dirVars
  /\ sock[s].pc = "delClose"
  /\ LET d == deleteTransactionSocket(s, cl, tx)
     IN cl' = d.cl /\ tx' = d.tx /\ panicked' = d.panic
  /\ sock' = [sock EXCEPT ![s].pc = "select"]
  /\ UNCHANGED <<hub, eng, frames>>

\* routeTransaction, case <-ts.status.timeoutTimer: the timer's single value
\* is received; a done socket ignores it
DriverTimerFires(s) ==
  /\ Running
  /\ UNCHANGED dirVars
  /\ sock[s].pc = "select"
  /\ sock[s].timer = "armed"
  /\ sock' = [sock EXCEPT ![s].timer = "none",
                          ![s].pc = IF sock[s].done THEN "select" ELSE "enqTimeout"]
  /\ UNCHANGED <<hub, cl, tx, eng, panicked, frames>>

\* routeTransaction, timeout: the send of the Timeout input
DriverEnqueueTimeout(s) ==
  /\ Running
  /\ UNCHANGED dirVars
  /\ sock[s].pc = "enqTimeout"
  /\ SendRI(sock[s].tx, RIW(s, "timeout", KeyOf[sock[s].owner], ""))
  /\ sock' = [sock EXCEPT ![s].pc = "select", ![s].late = @ \/ sock[s].reported,
                          ![s].heard = FALSE]
  /\ UNCHANGED <<hub, cl, eng, frames>>

\* routeTransaction, case fromClMsg, ok := <-ts.fromCl with ok
\* a variant of riChanFull that never finds the queue full
riChanFull_never(txv, t) == FALSE

\* routeTransaction: the `default` case of the select around
\* `ts.transaction.riChan <- ri` is taken when the buffer has no room
riChanFull(txv, t) == Len(txv[t].ri) >= RI_BUFFER_SIZE

DriverClientMsg(s) ==
  /\ Running
  /\ UNCHANGED dirVars
  /\ sock[s].pc = "select"
  /\ sock[s].fromCl # <<>>
  /\ LET m == Head(sock[s].fromCl)
         t == sock[s].tx
         r == [sock[s] EXCEPT !.fromCl = Tail(@),
                              !.heard = @ \/ sock[s].timer = "armed"]
     IN IF sock[s].done
          THEN /\ sock' = [sock EXCEPT ![s] = [r EXCEPT !.wire = "transaction has terminated"]]
               /\ UNCHANGED <<tx, panicked>>
        ELSE IF tx[t].riClosed
          THEN /\ panicked' = "send on closed channel (riChan)"
               /\ sock' = [sock EXCEPT ![s] = r]
               /\ UNCHANGED tx
        ELSE IF ~riChanFull(tx, t)
          THEN /\ tx' = [tx EXCEPT ![t].ri = Append(@, RIW(s, "usr", KeyOf[sock[s].owner], m))]
               /\ sock' = [sock EXCEPT ![s] = [r EXCEPT !.late = @ \/ sock[s].reported]]
               /\ UNCHANGED panicked
        ELSE /\ sock' = [sock EXCEPT ![s] = [r EXCEPT !.wire = "buffer occupied"]]
             /\ UNCHANGED <<tx, panicked>>
  /\ UNCHANGED <<hub, cl, eng, frames>>


\* --------------------------------------------------- transaction engine
\* a variant of isClosed with the test inverted
isClosed_inverted(closedRoChans, riw) == riw.s \notin closedRoChans

\* transaction.route: `_, isClosed := closedRoChans[riw.senderRoChan]`
isClosed(closedRoChans, riw) == riw.s \in closedRoChans

\* transaction.route: `for riw := range t.riChan`; an input whose senderRoChan
\* is in closedRoChans is skipped; the loop ends when riChan is closed and empty
EngineReceive(t, w) ==
  /\ Running
  /\ UNCHANGED dirVars
  /\ eng[t][w].pc = "idle"
  /\ IF tx[t].ri # <<>>
       THEN LET riw == Head(tx[t].ri)
            IN /\ tx' = [tx EXCEPT ![t].ri = Tail(@)]
               /\ IF isClosed(eng[t][w].closed, riw)
                    THEN /\ sock' = IF riw.type = "close"
                                      THEN [sock EXCEPT ![riw.s].ccDisc = TRUE] ELSE sock
                         /\ UNCHANGED eng
                    ELSE /\ eng' = [eng EXCEPT ![t][w].pc = "next", ![t][w].inp = riw]
                         /\ UNCHANGED sock
       ELSE /\ tx[t].riClosed
            /\ eng' = [eng EXCEPT ![t][w].pc = "exit"]
            /\ UNCHANGED <<tx, sock>>
  /\ UNCHANGED <<hub, cl, panicked, frames>>

\* transaction.route: ros := t.routine.Next(riw.args)
EngineNext(t, w) ==
  /\ Running
  /\ UNCHANGED dirVars
  /\ eng[t][w].pc = "next"
  /\ LET st == routineNext(tx[t].rt, eng[t][w].inp, hub)
         in == eng[t][w].inp
     IN /\ tx' = [tx EXCEPT
                    ![t].rt = st.rt,
                    ![t].doneTo = @ \cup {AddresseeOf(st.outs[i], in) :
                                            i \in {j \in 1..Len(st.outs) : st.outs[j].done}},
                    ![t].closedFrom = @ \cup (IF in.type = "close" THEN {in.pk} ELSE {})]
        /\ eng' = [eng EXCEPT ![t][w].pc = "dist", ![t][w].outs = st.outs]
  /\ sock' = IF eng[t][w].inp.type = "close"
               THEN [sock EXCEPT ![eng[t][w].inp.s].ccRecv = @ + 1]
               ELSE sock
  /\ UNCHANGED <<hub, cl, panicked, frames>>

\* a variant of remaining that skips the output after the one just sent
remaining_skipping(ros) == IF Len(ros) > 1 THEN Tail(Tail(ros)) ELSE <<>>

\* distributeRoutineOutputs: `for _, routineOutput := range ros` moves on to
\* the outputs after the one it has handled
remaining(ros) == Tail(ros)

\* the engine reaches `ch <- routineOutput` on the channel of socket tgt
\* and, on Done, will close the channel of socket ctgt (NoSock: a nil channel)
EngineOffer(t, w, tgt, ctgt, sockv) ==
  IF sockv[tgt].roClosed
    THEN /\ panicked' = "send on closed channel (roChan)"
         /\ UNCHANGED eng
    ELSE /\ eng' = [eng EXCEPT ![t][w].pc = "send", ![t][w].tgt = tgt, ![t][w].ctgt = ctgt]
         /\ UNCHANGED panicked

\* transaction.route after distributeRoutineOutputs returned: a ClientClose
\* input closes the sender's roChan
EngineFinishStep(t, w) ==
  LET riw == eng[t][w].inp
  IN /\ eng[t][w].outs = <<>>
     /\ IF riw.type = "close"
          THEN IF sock[riw.s].roClosed
                 THEN /\ panicked' = "close of closed channel (roChan)"
                      /\ UNCHANGED <<sock, eng>>
                 ELSE /\ sock' = [sock EXCEPT ![riw.s].roClosed = TRUE]
                      /\ eng' = [eng EXCEPT ![t][w].pc = "idle", ![t][w].inp = NoInp,
                                            ![t][w].closed = @ \cup {riw.s}]
                      /\ UNCHANGED panicked
          ELSE /\ eng' = [eng EXCEPT ![t][w].pc = "idle", ![t][w].inp = NoInp]
               /\ UNCHANGED <<sock, panicked>>
     /\ UNCHANGED <<hub, cl, tx, frames>>

\* distributeRoutineOutputs, routineOutput.Pk == nil: send to senderRoChan
DistributeToSender(t, w) ==
  /\ eng[t][w].outs # <<>>
  /\ Head(eng[t][w].outs).pk = NilPk
  /\ EngineOffer(t, w, eng[t][w].inp.s, eng[t][w].inp.s, sock)
  /\ UNCHANGED <<hub, cl, sock, tx, frames>>

\* distributeRoutineOutputs, t.pkToROChan[*routineOutput.Pk] exists: send to
\* that roChan; on Done the code marks and closes senderRoChan
DistributeToAttached(t, w) ==
  /\ eng[t][w].outs # <<>>
  /\ LET ro == Head(eng[t][w].outs)
     IN /\ ro.pk # NilPk
        /\ tx[t].pkmap[ro.pk] # NoSock
        /\ EngineOffer(t, w, tx[t].pkmap[ro.pk], eng[t][w].inp.s, sock)
  /\ UNCHANGED <<hub, cl, sock, tx, frames>>

\* distributeRoutineOutputs, addressee not in pkToROChan: hub.GetClient, then
\* newTransactionSocket + addTransactionSocket + go routeTransaction and the
\* send; on Done the code marks and closes `roChan`, the nil channel the
\* failed map lookup returned.  A missing or disconnected peer drops the output.
DistributeAttach(t, w) ==
  /\ eng[t][w].outs # <<>>
  /\ LET ro == Head(eng[t][w].outs)
     IN /\ ro.pk # NilPk
        /\ tx[t].pkmap[ro.pk] = NoSock
        /\ IF hub[ro.pk] = NoClient
             THEN /\ eng' = [eng EXCEPT ![t][w].outs = remaining(@)]
                  /\ UNCHANGED <<cl, sock, tx, panicked>>
           ELSE IF newId \in heldIds(hub[ro.pk], cl, sock)
             THEN /\ panicked' = "Attempted to registed a transaction id that already exists!"
                  /\ UNCHANGED <<cl, sock, tx, eng>>
           ELSE IF refusesSocket(cl, hub[ro.pk])
             THEN /\ eng' = [eng EXCEPT ![t][w].outs = remaining(@)]
                  /\ UNCHANGED <<cl, sock, tx, panicked>>
             ELSE /\ FreeSocks # {}
                  /\ LET peer == hub[ro.pk]
                         n == Min(FreeSocks)
                         a == addTransactionSocket(n, peer, t, cl, tx)
                     IN /\ cl' = a.cl
                        /\ tx' = a.tx
                        /\ sock' = [sock EXCEPT ![n] = [newTransactionSocket(peer, t, newId)
                                                          EXCEPT !.pc = "select"]]
                        /\ EngineOffer(t, w, n, NoSock, sock')
  /\ UNCHANGED <<hub, frames>>

\* distributeRoutineOutputs: one iteration of `for _, routineOutput := range ros`
\* up to its channel send, or the end of the step when no output is left
EngineDistribute(t, w) ==
  /\ Running
  /\ UNCHANGED dirVars
  /\ eng[t][w].pc = "dist"
  /\ \/ EngineFinishStep(t, w)
     \/ DistributeToSender(t, w)
     \/ DistributeToAttached(t, w)
     \/ DistributeAttach(t, w)

\* distributeRoutineOutputs after the send returned: `if routineOutput.Done`
\* marks the channel in closedRoChans and closes it
EngineAfterSend(t, w) ==
  /\ Running
  /\ UNCHANGED dirVars
  /\ eng[t][w].pc = "sent"
  /\ LET ro == Head(eng[t][w].outs)
         c == eng[t][w].ctgt
         e == [eng EXCEPT ![t][w].pc = "dist", ![t][w].outs = remaining(@),
                          ![t][w].tgt = NoSock, ![t][w].ctgt = NoSock]
     IN IF ~ro.done
          THEN /\ eng' = e
               /\ UNCHANGED <<sock, panicked>>
        ELSE IF c = NoSock
          THEN /\ panicked' = "close of nil channel"
               /\ UNCHANGED <<sock, eng>>
        ELSE IF sock[c].roClosed
          THEN /\ panicked' = "close of closed channel (roChan)"
               /\ UNCHANGED <<sock, eng>>
        ELSE /\ sock' = [sock EXCEPT ![c].roClosed = TRUE]
             /\ eng' = [e EXCEPT ![t][w].closed = @ \cup {c}]
             /\ UNCHANGED panicked
  /\ UNCHANGED <<hub, cl, tx, frames>>

\* ------------------------------------------------------------ specification
Next ==
  \/ \E f \in Frames : RouteFrame(f[1], f[2], f[3])
  \/ \E c \in Clients : RouteShortFrame(c)
  \/ \E c \in Clients : RouteReadError(c)
  \/ \E c \in Clients, s \in Sock : CloseSignal(c, s)
  \/ \E c \in Clients : CloseReturn(c)
  \/ \E c \in Clients : CloseSweep(c)
  \/ \E s \in Sock : DriverRecvOutput(s)
  \/ \E s \in Sock : DriverExit(s)
  \/ \E s \in Sock : DriverEnqueueClose(s)
  \/ \E s \in Sock : DriverDeleteAfterClose(s)
  \/ \E s \in Sock : DriverTimerFires(s)
  \/ \E s \in Sock : DriverEnqueueTimeout(s)
  \/ \E s \in Sock : DriverClientMsg(s)
  \/ \E t \in Tx, w \in Workers : EngineReceive(t, w)
  \/ \E t \in Tx, w \in Workers : EngineNext(t, w)
  \/ \E t \in Tx, w \in Workers : EngineDistribute(t, w)
  \/ \E t \in Tx, w \in Workers : EngineAfterSend(t, w)

Spec == Init /\ [][Next]_vars

\* the same program started from the states of InitBusy
SpecBusy == InitBusy /\ [][Next]_vars

\* the same program started with either routine factory
SpecMock == InitMock /\ [][Next]_vars

\* ------------------------------------------- directory and ComeOnline
\* the state after construction, before any client has come online
InitHub ==
  /\ hub = [k \in Keys |-> NoClient]
  /\ hubLock = "free"
  /\ publicKey = [c \in Clients |-> NilPk]
  /\ co = [i \in Inst |-> coInit]
  /\ engGet = NilPk
  /\ rs = rsInit
  /\ cl = [c \in Clients |-> MakeClient]
  /\ sock = [s \in Sock |-> sockInit]
  /\ tx = [t \in Tx |-> txInit]
  /\ eng = [t \in Tx |-> [w \in Workers |-> engInit]]
  /\ panicked = "none"
  /\ frames = 0

\* what the directory steps leave alone
socketVars == <<sock, tx, eng, frames, rs>>

\* a variant of alreadyExists that never finds the key
alreadyExists_never(h, k) == FALSE

\* genericHub.AddClient: `_, alreadyExists := h.clients[pk]`
alreadyExists(h, k) == h[k] # NoClient

\* MasterRoutine starts a ComeOnline for client c ("initiate":"comeOnline")
\* and ComeOnline.hello runs: refused when the client's key is already set
CoHello(i, c) ==
  /\ Running
  /\ co[i].pc = "none"
  /\ \A j \in Inst : j < i => co[j].pc # "none"
  /\ cl[c].pc = "read"
  /\ co' = [co EXCEPT ![i] = IF publicKey[c] # NilPk
                               THEN [@ EXCEPT !.client = c, !.pc = "done",
                                              !.err = "Public key already set"]
                               ELSE [@ EXCEPT !.client = c, !.pc = "recvPublicKey"]]
  /\ UNCHANGED <<hub, cl, panicked, hubLock, publicKey, engGet>>
  /\ UNCHANGED socketVars

\* ComeOnline.recvPublicKey: the client names key k; c.hub.GetClient(*key)
\* starts reading the map (GetClient takes no lock)
CoRecvPublicKey(i, k) ==
  /\ Running
  /\ co[i].pc = "recvPublicKey"
  /\ cl[co[i].client].pc = "read"
  /\ co' = [co EXCEPT ![i].pc = "getClient", ![i].key = k]
  /\ UNCHANGED <<hub, cl, panicked, hubLock, publicKey, engGet>>
  /\ UNCHANGED socketVars

clientWithKeyAlreadyExists_never(h, k) == FALSE

\* ComeOnline.recvPublicKey: the second result of c.hub.GetClient(*key)
clientWithKeyAlreadyExists(h, k) == h[k] # NoClient

\* ComeOnline.recvPublicKey: GetClient has returned; a key that is mapped
\* ends the transaction, otherwise the client is sent the text to sign
CoGetClientReturns(i) ==
  /\ Running
  /\ co[i].pc = "getClient"
  /\ co' = [co EXCEPT ![i] = IF clientWithKeyAlreadyExists(hub, co[i].key)
                               THEN [@ EXCEPT !.pc = "done",
                                       !.err = "Another client already signed in with this public key"]
                               ELSE [@ EXCEPT !.pc = "recvSignature"]]
  /\ UNCHANGED <<hub, cl, panicked, hubLock, publicKey, engGet>>
  /\ UNCHANGED socketVars

\* ComeOnline.recvSignature: the signature frame was read from the
\* connection and is valid; c.hub.AddClient is called and waits for the lock
CoRecvSignature(i) ==
  /\ Running
  /\ co[i].pc = "recvSignature"
  /\ cl[co[i].client].pc = "read"
  /\ co' = [co EXCEPT ![i].pc = "addClient"]
  /\ UNCHANGED <<hub, cl, panicked, hubLock, publicKey, engGet>>
  /\ UNCHANGED socketVars

\* genericHub.AddClient: h.lock.Lock()
CoAddClientLock(i) ==
  /\ Running
  /\ co[i].pc = "addClient"
  /\ hubLock = "free"
  /\ hubLock' = "held"
  /\ co' = [co EXCEPT ![i].pc = "addClientLocked"]
  /\ UNCHANGED <<hub, cl, panicked, publicKey, engGet>>
  /\ UNCHANGED socketVars

\* genericHub.AddClient: the test, the map write and the deferred Unlock;
\* ComeOnline.recvSignature ends the transaction when AddClient fails
CoAddClientWrite(i) ==
  /\ Running
  /\ co[i].pc = "addClientLocked"
  /\ IF alreadyExists(hub, co[i].key)
       THEN /\ co' = [co EXCEPT ![i].pc = "done",
                                ![i].err = "client with public key already exists"]
            /\ UNCHANGED hub
       ELSE /\ hub' = [hub EXCEPT ![co[i].key] = co[i].client]
            /\ co' = [co EXCEPT ![i].pc = "setPublicKey"]
  /\ hubLock' = "free"
  /\ UNCHANGED <<cl, panicked, publicKey, engGet>>
  /\ UNCHANGED socketVars

\* ComeOnline.recvSignature: c.client.SetPublicKey(c.publicKey), whose error
\* ("public key already set") is ignored, then the welcome output
CoSetPublicKey(i) ==
  /\ Running
  /\ co[i].pc = "setPublicKey"
  /\ publicKey' = IF publicKey[co[i].client] = NilPk
                    THEN [publicKey EXCEPT ![co[i].client] = co[i].key]
                    ELSE publicKey
  /\ co' = [co EXCEPT ![i].pc = "welcomed"]
  /\ UNCHANGED <<hub, cl, panicked, hubLock, engGet>>
  /\ UNCHANGED socketVars

\* ComeOnline.Next: a Timeout input, a cancel message, a malformed message or
\* an invalid signature ends the transaction without touching the hub
CoTerminate(i) ==
  /\ Running
  /\ co[i].pc \in {"recvPublicKey", "recvSignature"}
  /\ co' = [co EXCEPT ![i].pc = "done", ![i].err = "terminated"]
  /\ UNCHANGED <<hub, cl, panicked, hubLock, publicKey, engGet>>
  /\ UNCHANGED socketVars

\* createAndRouteClient: Route has returned and the deferred function reads
\* client.GetPublicKey(); with a nil key there is nothing to delete
DeferGetPublicKey(c) ==
  /\ Running
  /\ cl[c].pc = "read"
  /\ cl' = [cl EXCEPT ![c].pc = IF publicKey[c] = NilPk THEN "returned" ELSE "deleteClient",
                      ![c].disconnected = TRUE]
  /\ UNCHANGED <<hub, panicked, hubLock, publicKey, co, engGet>>
  /\ UNCHANGED socketVars

\* genericHub.DeleteClient: h.lock.Lock()
DeferDeleteLock(c) ==
  /\ Running
  /\ cl[c].pc = "deleteClient"
  /\ hubLock = "free"
  /\ hubLock' = "held"
  /\ cl' = [cl EXCEPT ![c].pc = "deleteClientLocked"]
  /\ UNCHANGED <<hub, panicked, publicKey, co, engGet>>
  /\ UNCHANGED socketVars

\* genericHub.DeleteClient: the test, the delete and the deferred Unlock;
\* createAndRouteClient panics on its error
DeferDeleteWrite(c) ==
  /\ Running
  /\ cl[c].pc = "deleteClientLocked"
  /\ IF hub[publicKey[c]] = NoClient
       THEN /\ panicked' = "client with public key does not exist"
            /\ UNCHANGED <<hub, cl>>
       ELSE /\ hub' = [hub EXCEPT ![publicKey[c]] = NoClient]
            /\ cl' = [cl EXCEPT ![c].pc = "returned"]
            /\ UNCHANGED panicked
  /\ hubLock' = "free"
  /\ UNCHANGED <<publicKey, co, engGet>>
  /\ UNCHANGED socketVars

\* distributeRoutineOutputs: hub.GetClient(*routineOutput.Pk) starts reading
\* the map for key k (GetClient takes no lock)
EngineGetClient(k) ==
  /\ Running
  /\ engGet = NilPk
  /\ engGet' = k
  /\ UNCHANGED <<hub, cl, panicked, hubLock, publicKey, co>>
  /\ UNCHANGED socketVars

\* distributeRoutineOutputs: hub.GetClient has returned
EngineGetClientReturns ==
  /\ Running
  /\ engGet # NilPk
  /\ engGet' = NilPk
  /\ UNCHANGED <<hub, cl, panicked, hubLock, publicKey, co>>
  /\ UNCHANGED socketVars

\* a GetClient call is reading Hub.clients
Reading == engGet # NilPk \/ \E i \in Inst : co[i].pc = "getClient"

\* the Go runtime detects a map read concurrent with a map write and stops
\* the process
MapRaceFatal ==
  /\ Running
  /\ Reading
  /\ hubLock = "held"
  /\ panicked' = "concurrent map read and map write"
  /\ UNCHANGED <<hub, cl, hubLock, publicKey, co, engGet>>
  /\ UNCHANGED socketVars

NextHub ==
  \/ \E i \in Inst, c \in Clients : CoHello(i, c)
  \/ \E i \in Inst, k \in Keys : CoRecvPublicKey(i, k)
  \/ \E i \in Inst : CoGetClientReturns(i)
  \/ \E i \in Inst : CoRecvSignature(i)
  \/ \E i \in Inst : CoAddClientLock(i)
  \/ \E i \in Inst : CoAddClientWrite(i)
  \/ \E i \in Inst : CoSetPublicKey(i)
  \/ \E i \in Inst : CoTerminate(i)
  \/ \E c \in Clients : DeferGetPublicKey(c)
  \/ \E c \in Clients : DeferDeleteLock(c)
  \/ \E c \in Clients : DeferDeleteWrite(c)
  \/ \E k \in Keys : EngineGetClient(k)
  \/ EngineGetClientReturns
  \/ MapRaceFatal

\* the directory, the ComeOnline transactions and the connections' teardown
HubSpec == InitHub /\ [][NextHub]_vars

\* ------------------------------------------- a routine stepped on its own
\* the payloads a client may send on a socket of the transaction
Msgs == {"initA", "initB", "initC", "accept", "reject", "answer", "ice", "iceEnd",
         "cancel", "bad"}

\* the first messages of the other transactions of the catalogue, and the
\* reply to a friend request
OtherMsgs == {"comeOnline", "friendA", "friendB", "sendFriendRejection", "forward"}

\* the payloads sent to a routine that is past its first step: those its
\* schemas tell apart
MsgsFor(sub) ==
  IF sub = "NewComeOnline" THEN {"cancel"}
  ELSE IF sub = "NewFriendRequest" THEN {"forward", "bad", "cancel"}
  ELSE Msgs

\* a new transaction whose routine has been given no input yet; any of the
\* two clients may have come online under its key
InitRoutine ==
  /\ \E S \in SUBSET {KeyOf[c] : c \in Clients} :
       /\ hub = [k \in Keys |-> IF k \in S THEN ClientOfKey(k) ELSE NoClient]
       /\ publicKey = [c \in Clients |-> IF KeyOf[c] \in S THEN KeyOf[c] ELSE NilPk]
  /\ hubLock = "free"
  /\ co = [i \in Inst |-> coInit]
  /\ engGet = NilPk
  /\ rs = rsInit
  /\ cl = [c \in Clients |-> MakeClient]
  /\ sock = [s \in Sock |-> sockInit]
  /\ tx = [t \in Tx |-> txInit]
  /\ eng = [t \in Tx |-> [w \in Workers |-> engInit]]
  /\ panicked = "none"
  /\ frames = 0

\* the participants whose inputs the engine still gives to the routine:
\* those whose roChan is not in closedRoChans
Participants == rs.active \ rs.ended

\* transaction.route: ros := t.routine.Next(riw.args), and what
\* distributeRoutineOutputs and the socket drivers make of the outputs: an
\* addressee that is online gets a socket, TimeoutEnabled arms its timer,
\* Done ends it; an output addressed by key to a participant whose socket is
\* deleted finds no channel and is dropped, and a ClientClose input ends its
\* sender
Deliver(in, gone) ==
  \E st \in {masterNext(rs.rt, in, hub)} :
  LET idx == 1..Len(st.outs)
      reached == {AddresseeOf(st.outs[i], in) : i \in
                    {j \in idx : IF st.outs[j].pk = NilPk THEN TRUE
                                 ELSE IF st.outs[j].pk \in gone THEN FALSE
                                 ELSE IF st.outs[j].pk \in rs.active THEN TRUE
                                 ELSE hub[st.outs[j].pk] # NoClient}}
      doneNow == {AddresseeOf(st.outs[i], in) : i \in {j \in idx : st.outs[j].done}}
      armNow == {AddresseeOf(st.outs[i], in) : i \in {j \in idx : st.outs[j].timeout}}
      fwd == \E i \in idx : st.outs[i].msg \in {"ICECandidate", "ICECandidate+done"}
  IN rs' = [rt |-> st.rt, started |-> TRUE, inp |-> in, outs |-> st.outs,
            active |-> rs.active \cup {in.pk} \cup reached,
            gone |-> gone,
            ended |-> rs.ended \cup (doneNow \cap reached)
                        \cup (IF in.type = "close" THEN {in.pk} ELSE {}),
            armed |-> ((rs.armed \ (IF in.type = "timeout" THEN {in.pk} ELSE {}))
                         \cup (armNow \cap reached)) \ doneNow,
            doneTo |-> rs.doneTo \cup doneNow,
            closedFrom |-> rs.closedFrom \cup (IF in.type = "close" THEN {in.pk} ELSE {}),
            iceA |-> IF fwd /\ in.pk = rs.rt.pkA THEN rs.iceA + 1 ELSE rs.iceA,
            iceB |-> IF fwd /\ in.pk # rs.rt.pkA THEN rs.iceB + 1 ELSE rs.iceB,
            tick |-> ~rs.tick]

\* Client.Route: the first frame under a new id creates the transaction and
\* its routine; the client has come online under key k, or has no key; its
\* connection may have closed (g) before the engine handles the frame
RoutineFirst(k, m, g) ==
  /\ Running
  /\ ~rs.started
  /\ IF k = NilPk THEN TRUE ELSE hub[k] # NoClient
  /\ Deliver(RI("usr", k, m), IF g THEN {k} ELSE {})
  /\ UNCHANGED <<hub, cl, sock, tx, eng, panicked, frames, hubLock, publicKey, co, engGet>>

\* routeTransaction: a client message of participant k is enqueued as UsrMsg
RoutineUsrMsg(k, m) ==
  /\ Running
  /\ rs.started
  /\ k \in Participants
  /\ m \in MsgsFor(rs.rt.sub)
  /\ (rs.rt.state = "iceCandidates" /\ m = "ice") => rs.iceA + rs.iceB < MaxIce
  /\ Deliver(RI("usr", k, m), rs.gone)
  /\ UNCHANGED <<hub, cl, sock, tx, eng, panicked, frames, hubLock, publicKey, co, engGet>>

\* routeTransaction: the timer armed on participant k's socket fires and a
\* Timeout input is enqueued
RoutineTimeout(k) ==
  /\ Running
  /\ rs.started
  /\ k \in Participants \cap rs.armed
  /\ Deliver(RI("timeout", k, ""), rs.gone)
  /\ UNCHANGED <<hub, cl, sock, tx, eng, panicked, frames, hubLock, publicKey, co, engGet>>

\* Client.close and routeTransaction: participant k's connection closes, its
\* driver enqueues a ClientClose input behind the inputs already queued and
\* deletes the socket
RoutineDisconnect(k) ==
  /\ Running
  /\ rs.started
  /\ k \in Participants \ rs.gone
  /\ rs' = [rs EXCEPT !.gone = @ \cup {k}, !.armed = @ \ {k}]
  /\ UNCHANGED <<hub, cl, sock, tx, eng, panicked, frames, hubLock, publicKey, co, engGet>>

\* transaction.route: the ClientClose input of participant k reaches the
\* routine
RoutineClientClose(k) ==
  /\ Running
  /\ rs.started
  /\ k \in Participants \cap rs.gone
  /\ Deliver(RI("close", k, ""), rs.gone)
  /\ UNCHANGED <<hub, cl, sock, tx, eng, panicked, frames, hubLock, publicKey, co, engGet>>

NextRoutine ==
  \/ \E k \in Keys \cup {NilPk}, m \in Msgs \cup OtherMsgs, g \in BOOLEAN : RoutineFirst(k, m, g)
  \/ \E k \in Keys \cup {NilPk}, m \in Msgs \cup OtherMsgs : RoutineUsrMsg(k, m)
  \/ \E k \in Keys \cup {NilPk} : RoutineTimeout(k)
  \/ \E k \in Keys \cup {NilPk} : RoutineDisconnect(k)
  \/ \E k \in Keys \cup {NilPk} : RoutineClientClose(k)

\* one transaction's routine, given the inputs the engine takes from the
\* participants' sockets
RoutineSpec == InitRoutine /\ [][NextRoutine]_vars

\* ------------------------------------------------------------ vocabulary
Created == {s \in Sock : sock[s].owner # "none"}
SocksOf(t) == {s \in Created : sock[s].tx = t}

\* workers of transaction t that have been started / are inside Next
Started(t) == {w \in Workers : eng[t][w].pc # "none"}
InNext(t) == {w \in Workers : eng[t][w].pc = "next"}

\* a worker of t is blocked in (or has just completed) the send of an output
Sending(t, w) == eng[t][w].pc \in {"send", "sent"}

\* the driver of s waits to enqueue an input (in pc k) on a full riChan while
\* an engine worker waits to hand an output to the same socket: neither can move
Stuck(s, k) ==
  /\ sock[s].pc = k
  /\ Len(tx[sock[s].tx].ri) = RI_BUFFER_SIZE
  /\ ~tx[sock[s].tx].riClosed
  /\ \E w \in Workers : eng[sock[s].tx][w].pc = "send" /\ eng[sock[s].tx][w].tgt = s

\* ------------------------------------------------------------------ claims

\* C1: for every transaction, at every instant at most one call of Next is in
\* progress: exactly one engine worker is ever started for a live
\* transaction, and only a started worker steps the routine.
C1_SingleStep ==
  \A t \in Tx :
    /\ Cardinality(InNext(t)) <= 1
    /\ Cardinality(Started(t)) = (IF tx[t].alive THEN 1 ELSE 0)

\* C1 witness: a Next call is in progress while inputs of another socket of
\* the same transaction wait in the queue.
C1_Witness ==
  \E t \in Tx, w \in Workers :
    /\ eng[t][w].pc = "next"
    /\ \E i \in 1..Len(tx[t].ri) : tx[t].ri[i].s # eng[t][w].inp.s

\* C2 (as claimed): the engine never sends an output on the channel of a
\* socket that was already sent Done, and never sends on a closed channel.
C2_NoSendAfterDone ==
  /\ panicked # "send on closed channel (roChan)"
  /\ \A t \in Tx, w \in Workers :
       eng[t][w].pc = "send" => ~sock[eng[t][w].tgt].sentDone

\* C3 (as claimed): the channel the engine closes for an output with Done is
\* the channel that output is sent on.
C3_ClosesChannelSentOn ==
  \A t \in Tx, w \in Workers :
    (Sending(t, w) /\ Head(eng[t][w].outs).done) => eng[t][w].ctgt = eng[t][w].tgt

\* C4 (as claimed): no socket output channel is closed twice; a ClientClose
\* step closes the sender's channel only if it is not closed already.
C4_ClosedAtMostOnce ==
  /\ panicked # "close of closed channel (roChan)"
  /\ \A t \in Tx, w \in Workers :
       (eng[t][w].pc = "dist" /\ eng[t][w].outs = <<>> /\ eng[t][w].inp.type = "close")
         => ~sock[eng[t][w].inp.s].roClosed

C6_NoForcedEnqueueDeadlock ==
  \A s \in Created : ~Stuck(s, "enqClose") /\ ~Stuck(s, "enqTimeout")

\* every participant of transaction t has terminated: it was sent Done or it
\* reported the close of its connection
AllTerminated(t) ==
  /\ tx[t].alive
  /\ \A s \in SocksOf(t) : sock[s].sentDone \/ sock[s].reported

\* transaction t is collected: no socket attached, input queue closed, worker gone
Collected(t) ==
  /\ tx[t].count = 0
  /\ tx[t].riClosed
  /\ \A w \in Started(t) : eng[t][w].pc = "exit"

\* the process has panicked, or a driver of t and the engine block each other
Halted(t) ==
  \/ panicked # "none"
  \/ \E s \in SocksOf(t) : Stuck(s, "enqClose") \/ Stuck(s, "enqTimeout")

\* C7 (as claimed): once every participant has terminated the transaction
\* is eventually collected; so it is never halted for good, all participants
\* terminated, without being collected.
C7_TerminatedThenCollected ==
  \A t \in Tx : (AllTerminated(t) /\ Halted(t)) => Collected(t)

\* C8 (as claimed): the attached-socket count reaches zero at most once, the
\* queue is closed exactly then, no socket is attached afterwards and the
\* queue is never closed a second time.
C8_ZeroAtMostOnce ==
  /\ panicked # "close of closed channel (riChan)"
  /\ \A t \in Tx : tx[t].zeros <= 1 /\ (tx[t].riClosed => tx[t].count = 0)

\* C9 (as claimed): after a socket reported client close or processed a Done
\* output, its driver enqueues no further input.
C9_NoInputAfterDone == \A s \in Sock : ~sock[s].late

\* C10 (as claimed): a Timeout input of a socket that is not done when its
\* timer fires is eventually placed on the queue; so its driver never waits
\* with it in a state from which the send can no longer happen.
C10_TimeoutNeverLost ==
  \A s \in Created :
    sock[s].pc = "enqTimeout" =>
      (panicked = "none" /\ ~tx[sock[s].tx].riClosed /\ ~Stuck(s, "enqTimeout"))

\* C11: a socket that has processed an output with Done never generates a
\* Timeout input afterwards: its driver is done and never waits to enqueue
\* one, whether or not a timer was armed when the Done arrived.
C11_DoneDropsTimer ==
  \A s \in Created :
    sock[s].sentDone => (sock[s].done /\ sock[s].pc # "enqTimeout")

\* C11 witness: a socket processed Done while its timer was armed and has
\* since returned to its select.
C11_Witness ==
  \E s \in Created : sock[s].armedAtDone /\ sock[s].sentDone /\ sock[s].pc = "select"

\* C12 (as claimed): a Timeout input is generated for a socket only if its
\* driver received no client message since the timer was armed.
C12_TimeoutOnlyIfSilent ==
  \A s \in Created : sock[s].pc = "enqTimeout" => ~sock[s].heard

\* the socket the output at the head of worker w's list is addressed to
Addressee(t, w) ==
  LET ro == Head(eng[t][w].outs)
  IN IF ro.pk = NilPk THEN eng[t][w].inp.s ELSE tx[t].pkmap[ro.pk]

C17_NoSocketAfterDisconnect ==
  [][\A c \in Clients : cl[c].disconnected => cl'[c].socks \subseteq cl[c].socks]_vars

\* C17 witness: the engine has handled the connection request addressed to
\* B, B is disconnected but still registered in the hub, and B was given no
\* socket: addTransactionSocket refused.
C17_Witness ==
  \E t \in Tx, w \in Workers :
    /\ eng[t][w].pc = "dist" /\ eng[t][w].outs = <<>> /\ eng[t][w].inp.msg = "initB"
    /\ tx[t].rt.state = "bAcceptOrReject" /\ tx[t].rt.pkB = "KB"
    /\ cl["B"].disconnected /\ hub["KB"] = "B"
    /\ \A s \in Created : sock[s].owner # "B"

\* the panics of closing a socket's fromCl or clientCloseChan twice, or of
\* sending on one of them after it was closed
ClientChannelPanics ==
  {"close of closed channel (fromCl)", "close of closed channel (clientCloseChan)",
   "send on closed channel (fromCl)", "send on closed channel (clientCloseChan)"}

\* C19: fromCl and clientCloseChan of a socket are closed only by a
\* closeDanglingChannels call of the owning client's router (the step that
\* empties the client's dangling lists), only after the socket was deleted
\* from the client's table, never twice, and nothing is sent on a closed one.
C19_ClientChannelsClosedByRouter ==
  [][/\ panicked' \notin ClientChannelPanics
     /\ \A s \in Created :
          LET c == sock[s].owner
          IN /\ (sock'[s].fromClClosed /\ ~sock[s].fromClClosed) =>
                  (s \in cl[c].dFrom /\ cl'[c].dFrom = {} /\ s \notin cl[c].socks)
             /\ (sock'[s].ccClosed /\ ~sock[s].ccClosed) =>
                  (s \in cl[c].dClose /\ cl'[c].dClose = {} /\ s \notin cl[c].socks)
             /\ sock[s].fromClClosed => Len(sock'[s].fromCl) <= Len(sock[s].fromCl)
             /\ sock[s].ccClosed => (s \in cl'[c].signalled => s \in cl[c].signalled)]_vars

\* C19 witness: the Route loop of a client that is still reading has closed
\* both channels of a deleted socket, and the socket's driver has returned.
C19_Witness ==
  \E s \in Created :
    /\ sock[s].fromClClosed /\ sock[s].ccClosed /\ sock[s].pc = "exit"
    /\ cl[sock[s].owner].pc = "read" /\ s \notin cl[sock[s].owner].socks

\* C18 (as claimed): a client never holds two sockets under one id, and the
\* fatal duplicate registration in addTransactionSocket never happens.
C18_UniqueSocketIds ==
  /\ panicked # "Attempted to registed a transaction id that already exists!"
  /\ \A c \in Clients :
       /\ \A s1, s2 \in cl[c].socks : sock[s1].id = sock[s2].id => s1 = s2
       /\ \A s \in cl[c].socks : sock[s].id \notin cl[c].others

\* the cap on the transactions one peer may have open at a time; the spec
\* names it without a value, the smallest cap is taken
TransactionCap == 1

\* the transactions client c has started and still holds a socket of
OpenStartedBy(c) ==
  Cardinality(cl[c].others) + Cardinality({s \in cl[c].socks : sock[s].byRoute})

\* C20 (as claimed): the number of open transactions a peer has started
\* never exceeds the cap (a frame with an unknown id arriving at the cap
\* creates no transaction).
C20_CapRespected == \A c \in Clients : OpenStartedBy(c) <= TransactionCap

\* C14: AddClient never overwrites: a mapped key keeps its client until it
\* is deleted; an AddClient that finds the key mapped fails and leaves the
\* hub unchanged, one that finds it free maps it to its own client; at most
\* one AddClient is inside the lock, so of two concurrent registrations of
\* one key exactly one succeeds.
C14_RegisterNeverOverwrites ==
  [][/\ \A k \in Keys : hub[k] # NoClient => hub'[k] \in {hub[k], NoClient}
     /\ Cardinality({i \in Inst : co[i].pc = "addClientLocked"}) <= 1
     /\ \A i \in Inst :
          (co[i].pc = "addClientLocked" /\ co'[i].pc # "addClientLocked") =>
             IF hub[co[i].key] # NoClient
               THEN /\ hub' = hub
                    /\ co'[i].err = "client with public key already exists"
               ELSE /\ hub' = [hub EXCEPT ![co[i].key] = co[i].client]
                    /\ co'[i].pc = "setPublicKey"]_vars

\* C14 witness: two clients registered the same key concurrently (both
\* passed the lookup of recvPublicKey); one was added, the other's AddClient
\* failed and the key still maps to the first.
C14_Witness ==
  \E i, j \in Inst :
    /\ co[i].client # co[j].client /\ co[i].key = co[j].key
    /\ co[i].pc \in {"setPublicKey", "welcomed"}
    /\ co[j].err = "client with public key already exists"
    /\ hub[co[i].key] = co[i].client

\* C15 (as claimed): no GetClient call reads the hub while an AddClient or a
\* DeleteClient holds the hub's lock.
C15_LookupSerialised == Reading => hubLock = "free"

\* C16 (as claimed): a key is mapped only to a client whose connection is
\* live: no hub entry refers to a client whose connection was torn down.
C16_MappedOnlyWhileLive ==
  \A k \in Keys : hub[k] # NoClient => cl[hub[k]].pc # "returned"

C22_FirstRoutineOneMessage ==
  \A t \in Tx : tx[t].rt.kind = "instant" => tx[t].rt.usr <= 1

\* C23 (as claimed): the outputs returned by one Next call hold at most one
\* output per addressee, an output without key being addressed to the sender
\* of the input.
C23_OneOutputPerAddressee ==
  \A i, j \in 1..Len(rs.outs) :
    i # j => AddresseeOf(rs.outs[i], rs.inp) # AddresseeOf(rs.outs[j], rs.inp)

\* C24 (as claimed): no output a routine returns from a Next call is
\* addressed to a participant that an earlier Next call of it has addressed a
\* Done output to, or that it has been given a ClientClose input from.
C24_NoOutputToTerminated ==
  [][\A t \in Tx, w \in Workers :
       (eng[t][w].pc = "next" /\ eng'[t][w].pc = "dist") =>
          \A i \in 1..Len(eng'[t][w].outs) :
             AddresseeOf(eng'[t][w].outs[i], eng[t][w].inp)
                \notin tx[t].doneTo \cup tx[t].closedFrom]_vars

\* the participant of a sendConnectionRequest other than k
OtherParticipant(r, k) == IF k = r.pkA THEN r.pkB ELSE r.pkA

\* a user message from the participant who may not speak in state r: the
\* initiator in bAcceptOrReject, the peer in aSdpAnswer, a side that has sent
\* its empty ICE candidate in iceCandidates
OutOfTurn(r, in) ==
  /\ in.type = "usr" /\ ~isClientCancelMsg(in.msg)
  /\ r.set
  /\ \/ r.state = "bAcceptOrReject" /\ in.pk = r.pkA
     \/ r.state = "aSdpAnswer" /\ in.pk = r.pkB
     \/ r.state = "iceCandidates" /\ in.pk = r.pkA /\ r.aEmpty
     \/ r.state = "iceCandidates" /\ in.pk = r.pkB /\ r.bEmpty

\* C25: a user message from the participant who may not speak in the current
\* state is answered, in that Next call, with exactly two outputs, both Done:
\* an error for the offender and "Peer sent a malformed message" for the other
\* participant.
C25_OutOfTurnTerminatesBoth ==
  [][(rs'.tick # rs.tick /\ OutOfTurn(rs.rt, rs'.inp)) =>
       /\ Len(rs'.outs) = 2
       /\ rs'.outs[1].done /\ rs'.outs[2].done
       /\ AddresseeOf(rs'.outs[1], rs'.inp) = rs'.inp.pk
       /\ rs'.outs[1].msg \in {"Message sent out or order",
                               "Another ICE candidate sent after final ICE candidate"}
       /\ rs'.outs[2].pk = OtherParticipant(rs.rt, rs'.inp.pk)
       /\ rs'.outs[2].msg = "Peer sent a malformed message"]_vars

\* C25 witness: the initiator A spoke while B had to accept or reject, and
\* both were terminated.
C25_Witness ==
  /\ rs.rt.state = "bAcceptOrReject" /\ rs.rt.pkA # rs.rt.pkB
  /\ rs.inp.type = "usr" /\ rs.inp.pk = rs.rt.pkA
  /\ Len(rs.outs) = 2
  /\ rs.outs[1].msg = "Message sent out or order" /\ rs.outs[1].done
  /\ rs.outs[2].msg = "Peer sent a malformed message" /\ rs.outs[2].done
  /\ {rs.rt.pkA, rs.rt.pkB} \subseteq rs.doneTo

\* C26 (as claimed): a sendConnectionRequest whose target key is the
\* sender's own key is ended in the entry step: the routine never leaves the
\* entry state with the initiator as its own peer, and the only output of
\* that step is a Done for the sender carrying "Connecting to yourself is not
\* allowed".
C26_SelfConnectRefused ==
  (rs.rt.sub = "NewEstablishConnectionToPeer" /\ rs.rt.pkA # NilPk /\ rs.rt.pkA = rs.rt.pkB) =>
     /\ rs.rt.state = "entry"
     /\ rs.inp.type = "usr" /\ IsInit(rs.inp.msg) =>
          /\ Len(rs.outs) = 1 /\ rs.outs[1].done
          /\ AddresseeOf(rs.outs[1], rs.inp) = rs.inp.pk
          /\ rs.outs[1].msg = "Connecting to yourself is not allowed"

\* C27 (as claimed): at most maxIceCandidates ICE candidates of either side
\* of a sendConnectionRequest are forwarded to the other side.
C27_IceCandidatesCapped ==
  rs.iceA <= maxIceCandidates /\ rs.iceB <= maxIceCandidates

\* C28: a {"terminate":"cancel"} message given to a sendConnectionRequest
\* still in entry is answered with one output, a Done for the sender; in any
\* later state it is answered with exactly two outputs, a Done without
\* message for the sender and a Done carrying "Peer cancelled the
\* transaction" for the other participant.
C28_CancelTerminates ==
  [][(/\ rs'.tick # rs.tick /\ rs.rt.sub = "NewEstablishConnectionToPeer"
      /\ rs'.inp.type = "usr" /\ isClientCancelMsg(rs'.inp.msg)) =>
       IF rs.rt.state = "entry"
         THEN /\ Len(rs'.outs) = 1
              /\ rs'.outs[1].done /\ rs'.outs[1].pk = NilPk
         ELSE /\ Len(rs'.outs) = 2
              /\ rs'.outs[1].done /\ rs'.outs[1].pk = NilPk /\ rs'.outs[1].msg = ""
              /\ rs'.outs[2].done
              /\ rs'.outs[2].pk = OtherParticipant(rs.rt, rs'.inp.pk)
              /\ rs'.outs[2].msg = "Peer cancelled the transaction"]_vars

\* C28 witness: the peer B cancelled after the request had been forwarded to
\* it, and both participants were terminated.
C28_Witness ==
  /\ rs.rt.sub = "NewEstablishConnectionToPeer"
  /\ rs.rt.state # "entry" /\ rs.rt.pkA # rs.rt.pkB
  /\ rs.inp.type = "usr" /\ isClientCancelMsg(rs.inp.msg) /\ rs.inp.pk = rs.rt.pkB
  /\ Len(rs.outs) = 2
  /\ rs.outs[2].msg = "Peer cancelled the transaction" /\ rs.outs[2].pk = rs.rt.pkA
  /\ {rs.rt.pkA, rs.rt.pkB} \subseteq rs.doneTo

\* C29 (as claimed): a ClientClose input given to a sendConnectionRequest
\* before the pair is established (the routine is still in entry) produces no
\* output; one given later produces exactly one output, a Done carrying
\* "Peer disconnected" for the surviving participant and not for the one
\* that closed.
C29_ClientCloseOutputs ==
  [][\A t \in Tx, w \in Workers :
       (/\ eng[t][w].pc = "next" /\ eng'[t][w].pc = "dist"
        /\ eng[t][w].inp.type = "close"
        /\ tx[t].rt.kind = "master" /\ tx[t].rt.set) =>
          IF tx[t].rt.state = "entry"
            THEN eng'[t][w].outs = <<>>
            ELSE /\ Len(eng'[t][w].outs) = 1
                 /\ eng'[t][w].outs[1].done
                 /\ eng'[t][w].outs[1].msg = "Peer disconnected"
                 /\ eng'[t][w].outs[1].pk = OtherParticipant(tx[t].rt, eng[t][w].inp.pk)
                 /\ eng'[t][w].outs[1].pk # eng[t][w].inp.pk]_vars

\* C30: a Timeout input given to a sendConnectionRequest after the pair is
\* established is answered with exactly two outputs, both Done: "Timeout" for
\* the participant that timed out and "Peer timed out" for the other.
C30_TimeoutTerminatesBoth ==
  [][(/\ rs'.tick # rs.tick /\ rs.rt.sub = "NewEstablishConnectionToPeer" /\ rs.rt.state # "entry"
      /\ rs'.inp.type = "timeout") =>
       /\ Len(rs'.outs) = 2
       /\ rs'.outs[1].done /\ rs'.outs[1].pk = NilPk /\ rs'.outs[1].msg = "Timeout"
       /\ rs'.outs[2].done
       /\ rs'.outs[2].pk = OtherParticipant(rs.rt, rs'.inp.pk)
       /\ rs'.outs[2].msg = "Peer timed out"]_vars

\* C30 witness: the timer armed on B's socket by the forwarded request fired,
\* and both participants were terminated.
C30_Witness ==
  /\ rs.rt.state = "bAcceptOrReject" /\ rs.rt.pkA # rs.rt.pkB
  /\ rs.inp.type = "timeout" /\ rs.inp.pk = rs.rt.pkB
  /\ Len(rs.outs) = 2
  /\ rs.outs[1].msg = "Timeout" /\ rs.outs[2].msg = "Peer timed out"
  /\ rs.outs[2].pk = rs.rt.pkA
  /\ {rs.rt.pkA, rs.rt.pkB} \subseteq rs.doneTo

\* C31: in iceCandidates a valid candidate from a side that has not sent its
\* empty candidate is forwarded to the other side; the forward carries Done
\* exactly when the candidate is empty and the other side has sent its empty
\* candidate before, and then the receiver gets the candidate followed by
\* {"terminate":"done"} and the sender gets {"terminate":"done"}, both Done;
\* any other forward is a single output without Done.
C31_IceCompletesOnSecondEmpty ==
  [][(/\ rs'.tick # rs.tick /\ rs.rt.sub = "NewEstablishConnectionToPeer" /\ rs.rt.state = "iceCandidates"
      /\ rs'.inp.type = "usr" /\ rs'.inp.msg \in {"ice", "iceEnd"}
      /\ ~OutOfTurn(rs.rt, rs'.inp)) =>
       IF /\ rs'.inp.msg = "iceEnd"
          /\ IF rs'.inp.pk = rs.rt.pkA THEN rs.rt.bEmpty ELSE rs.rt.aEmpty
         THEN /\ Len(rs'.outs) = 2
              /\ rs'.outs[1] = RO(OtherParticipant(rs.rt, rs'.inp.pk), TRUE, FALSE,
                                  "ICECandidate+done")
              /\ rs'.outs[2] = RO(NilPk, TRUE, FALSE, "done")
         ELSE /\ Len(rs'.outs) = 1
              /\ ~rs'.outs[1].done
              /\ rs'.outs[1].pk = OtherParticipant(rs.rt, rs'.inp.pk)
              /\ rs'.outs[1].msg = "ICECandidate"]_vars

\* C31 witness: both sides have sent their empty candidate and the second
\* one ended both participants.
C31_Witness ==
  /\ rs.rt.state = "iceCandidates" /\ rs.rt.aEmpty /\ rs.rt.bEmpty
  /\ rs.inp.msg = "iceEnd"
  /\ Len(rs.outs) = 2 /\ rs.outs[1].msg = "ICECandidate+done" /\ rs.outs[2].msg = "done"
  /\ {rs.rt.pkA, rs.rt.pkB} \subseteq rs.doneTo

\* a ComeOnline transaction that has begun and has neither completed nor
\* failed
CoInProgress(i) == co[i].pc \notin {"none", "done", "welcomed"}

\* C32 (as claimed): a comeOnline whose first step runs on a peer while
\* another comeOnline of the same peer is in progress is ended by that step
\* with an error.
C32_SecondComeOnlineRefused ==
  [][\A j \in Inst :
       (/\ co[j].pc = "none" /\ co'[j].pc # "none"
        /\ \E i \in Inst : i # j /\ CoInProgress(i) /\ co[i].client = co'[j].client) =>
          (co'[j].pc = "done" /\ co'[j].err # "")]_vars

\* C33: a comeOnline that finds the key it claims mapped to another client,
\* at the lookup of recvPublicKey or (two clients claiming one key
\* concurrently) at AddClient, ends there with an error, and that step
\* changes neither the directory nor any client's public key; a comeOnline
\* that has ended is never welcomed afterwards.
C33_TakenKeyRefused ==
  [][\A j \in Inst :
       /\ (/\ co[j].pc \in {"getClient", "addClientLocked"}
           /\ co'[j].pc # co[j].pc
           /\ hub[co[j].key] \notin {NoClient, co[j].client}) =>
             /\ co'[j].pc = "done" /\ co'[j].err # ""
             /\ hub' = hub /\ publicKey' = publicKey
       /\ co[j].pc = "done" => co'[j] = co[j]]_vars

\* C33 witness: a client claimed a key that another client had registered;
\* its transaction ended with the error of the lookup, its own key is unset
\* and the directory maps the key to the first client.
C33_Witness ==
  \E i, j \in Inst :
    /\ co[i].client # co[j].client /\ co[i].key = co[j].key
    /\ co[i].pc = "welcomed"
    /\ co[j].pc = "done"
    /\ co[j].err = "Another client already signed in with this public key"
    /\ publicKey[co[j].client] = NilPk
    /\ hub[co[j].key] = co[i].client

\* TestMasterRoutine: the initiate tokens of the catalogue and the
\* constructor expected for each
Catalogue == {"comeOnline", "sendConnectionRequest", "sendFriendRequest",
              "sendFriendRejection"}
ConstructorOf(token) ==
  IF token = "comeOnline" THEN "NewComeOnline"
  ELSE IF token = "sendConnectionRequest" THEN "NewEstablishConnectionToPeer"
  ELSE IF token = "sendFriendRequest" THEN "NewFriendRequest"
  ELSE "NewFriendRejection"

\* C34: a first input that names no token of the catalogue is answered with
\* exactly one output, an error for the sender with Done set, and no
\* sub-routine is constructed.
C34_UnknownTokenRefused ==
  [][(/\ ~rs.started /\ rs'.started
      /\ Initiate(rs'.inp.msg) \notin Catalogue) =>
        /\ Len(rs'.outs) = 1
        /\ rs'.outs[1].done /\ rs'.outs[1].pk = NilPk /\ rs'.outs[1].msg # ""
        /\ ~rs'.rt.set /\ rs'.rt.sub = "none"]_vars

\* C34 witness: the first message of a transaction carried no initiate
\* token; its sender was terminated and the routine has no sub-routine.
C34_Witness ==
  /\ rs.started /\ rs.inp.type = "usr" /\ Initiate(rs.inp.msg) = ""
  /\ ~rs.rt.set /\ rs.rt.sub = "none"
  /\ Len(rs.outs) = 1 /\ rs.outs[1].done
  /\ rs.inp.pk \in rs.doneTo

\* C35 (as claimed): a first message naming one of the four tokens of the
\* catalogue makes the routine construct the sub-routine of that token, and
\* the sub-routine of a transaction never changes afterwards.
C35_CatalogueTokenConstructs ==
  [][/\ (/\ ~rs.started /\ rs'.started
         /\ Initiate(rs'.inp.msg) \in Catalogue) =>
           (rs'.rt.set /\ rs'.rt.sub = ConstructorOf(Initiate(rs'.inp.msg)))
     /\ rs.rt.set => (rs'.rt.set /\ rs'.rt.sub = rs.rt.sub)]_vars

\* C36 (as claimed): no driver sends on riChan after it was closed: while
\* the queue of a transaction is closed, no driver of a socket of that
\* transaction is about to enqueue a ClientClose or a Timeout, and no send
\* has hit the closed queue.
C36_NoSendOnClosedQueue ==
  /\ panicked # "send on closed channel (riChan)"
  /\ \A s \in Created :
       tx[sock[s].tx].riClosed => sock[s].pc \notin {"enqClose", "enqTimeout"}

\* socket s was registered and deleteTransactionSocket has removed it from
\* c.transactions
Deleted(s) == s \in Created /\ s \notin cl[sock[s].owner].socks

\* transaction.route of t has returned: nothing closes a roChan of t any more
EngineGone(t) == Started(t) # {} /\ \A w \in Started(t) : eng[t][w].pc = "exit"

\* C37 (as claimed): the driver of a deleted socket eventually terminates,
\* its roChan being closed by the engine; so the engine of a transaction
\* never returns, the process still running, while the roChan of a deleted
\* socket of that transaction is open.
C37_DeletedDriverTerminates ==
  \A s \in Created :
    (Deleted(s) /\ panicked = "none" /\ EngineGone(sock[s].tx)) => sock[s].roClosed

\* C38 (as claimed): Client.close always completes; so the router never
\* waits in close to signal a socket whose driver can no longer take the
\* signal: one that has returned, or one blocked on the full queue while the
\* engine is blocked on it.
C38_ShutdownCompletes ==
  \A c \in Clients :
    cl[c].pc = "closing" =>
      \A s \in cl[c].socks \ cl[c].signalled :
        /\ sock[s].pc # "exit"
        /\ ~Stuck(s, "enqTimeout") /\ ~Stuck(s, "enqClose")

\* C39 (as claimed): the engine takes an input off the queue without giving
\* it to Next only if the socket that sent it has been sent Done or its
\* ClientClose has been given to the routine before.
C39_DiscardOnlyFromTerminated ==
  [][\A t \in Tx :
       (/\ tx[t].ri # <<>> /\ tx'[t].ri = Tail(tx[t].ri)
        /\ eng'[t] = eng[t]) =>
          (\/ sock[Head(tx[t].ri).s].sentDone
           \/ sock[Head(tx[t].ri).s].ccRecv >= 1)]_vars

\* C40 (as claimed): once both keys of a sendConnectionRequest are set, its
\* two participants are terminated (sent Done, or their ClientClose given to
\* the routine) in the same step; so no Timeout or ClientClose input is given
\* to the routine while exactly one of the two has been terminated.
C40_PairTerminatedTogether ==
  [][\A t \in Tx, w \in Workers :
       (/\ eng[t][w].pc = "next" /\ eng'[t][w].pc = "dist"
        /\ tx[t].rt.kind = "master"
        /\ tx[t].rt.sub = "NewEstablishConnectionToPeer" /\ pairSet(tx[t].rt)
        /\ eng[t][w].inp.type \in {"timeout", "close"}) =>
          (tx[t].rt.pkA \in tx[t].doneTo \cup tx[t].closedFrom
             <=> tx[t].rt.pkB \in tx[t].doneTo \cup tx[t].closedFrom)]_vars

====
